---- MODULE Spec2Model ----
(***************************************************************************)
(* Recursive-descent parsers of rust-cpp-parser:                           *)
(*   QualifiedParser::parse  (src/parser/names/name.rs)                    *)
(*   ArrayParser::parse      (src/parser/declarations/array.rs)            *)
(*   ExternParser::parse     (src/parser/declarations/extern.rs)           *)
(*   DoStmtParser::parse     (src/parser/statements/do.rs)                 *)
(* One behaviour is one call of one parse function.  The token stream is   *)
(* revealed as the lexer is pulled: `pulled` is the prefix of the stream   *)
(* read since the call.  The sibling parsers a parse function delegates to *)
(* (Operator, Destructor, Expression, Attributes, Statement,               *)
(* DeclarationList, TypeDeclarator) follow the uniform sub-parser contract *)
(* and are nondeterministic within it.                                     *)
(***************************************************************************)
EXTENDS Naturals, Sequences, FiniteSets

VARIABLES
    parser,      \* the parse function this behaviour runs
    args,        \* its arguments: tok (lookahead), first, attributes
    entry,       \* the Context as it was when parse was called
    context,     \* the shared Context: scope stack and declared types
    pulled,      \* tokens handed out by lexer.next_useful() since the call
    pc,          \* position inside the parse function
    tok,         \* local `tok`
    tk,          \* local Option<Token> returned by the last sub-parser
    names,       \* QualifiedParser: local `names`
    wait_id,     \* QualifiedParser: local `wait_id`
    dimensions,  \* ArrayParser: local `dimensions`
    size,        \* ArrayParser: local `size`
    body,        \* DoStmtParser: local `body`
    condition,   \* DoStmtParser: local `condition`
    language,    \* ExternParser: local `language`
    has_brace,   \* ExternParser: local `has_brace`
    list,        \* ExternParser: local `list`
    calls,       \* history: the sub-parser calls made, with what they returned
    checks,      \* history: the tokens compared against an expected terminator
    result       \* what parse returned

vars == <<parser, args, entry, context, pulled, pc, tok, tk, names, wait_id,
          dimensions, size, body, condition, language, has_brace, list,
          calls, checks, result>>

qvars == <<names, wait_id>>
avars == <<dimensions, size>>
dvars == <<body, condition>>
evars == <<language, has_brace, list>>

----------------------------------------------------------------------------
(* Bounds *)

\* Longest token stream before end-of-stream.
MaxLen == 5
\* Most tokens a sub-parser reads beyond its first token.
MaxSubPull == 1
\* Most declarations a declaration list holds.
MaxDecls == 2

----------------------------------------------------------------------------
(* Option<T>, Token *)

None == <<>>
Some(x) == <<x>>

Tok(t) == [t |-> t, val |-> ""]
Ident(v) == [t |-> "Identifier", val |-> v]
LitStr(v) == [t |-> "LiteralString", val |-> v]
Eof == Tok("Eof")
\* a local that holds no token yet
Unset == Tok("Unset")

Parsers == {"Qualified", "Array", "Extern", "Do"}

\* The tokens a parse function tells apart, and representatives of the rest.
Alphabet(p) ==
    CASE p = "Qualified" ->
           {Ident("a"), Ident("b"), Tok("ColonColon"), Tok("Operator"),
            Tok("Tilde"), Tok("SemiColon"), Eof}
      [] p = "Array" ->
           {Tok("LeftBrack"), Tok("RightBrack"), Ident("a"), Tok("SemiColon"), Eof}
      [] p = "Extern" ->
           {Tok("Extern"), LitStr("C"), Tok("LeftBrace"), Tok("RightBrace"),
            Ident("a"), Tok("SemiColon"), Eof}
      [] p = "Do" ->
           {Tok("While"), Tok("LeftParen"), Tok("RightParen"), Tok("SemiColon"),
            Ident("a"), Eof}

----------------------------------------------------------------------------
(* Lexer collaborator *)

\* lexer.next_useful(): the tokens the stream may hold after prefix p.  Past
\* the end of the stream the lexer keeps answering Eof.
NextUseful(p) ==
    IF (p # <<>> /\ p[Len(p)] = Eof) \/ Len(p) >= MaxLen
    THEN {Eof}
    ELSE Alphabet(parser)

\* lexer.span(): the source position the lexer has reached.
Span(p) == Len(p)

\* n successive next_useful() answers after prefix p.
RECURSIVE LexRuns(_, _)
LexRuns(p, n) ==
    IF n = 0 THEN {<<>>}
    ELSE UNION { { <<t>> \o s : s \in LexRuns(Append(p, t), n - 1) } :
                 t \in NextUseful(p) }

\* opt.unwrap_or_else(|| self.lexer.next_useful()): the token, and the stream
\* prefix read afterwards.
UnwrapOrNext(opt, p) ==
    IF opt # None
    THEN {[tok |-> opt[1], pulled |-> p]}
    ELSE {[tok |-> t, pulled |-> Append(p, t)] : t \in NextUseful(p)}

----------------------------------------------------------------------------
(* Results, errors *)

OkR(t, n) == [kind |-> "Ok", tok |-> t, node |-> n, err |-> None]
ErrR(e) == [kind |-> "Err", tok |-> None, node |-> None, err |-> Some(e)]
\* Option::unwrap() on None
Panic == [kind |-> "Panic", tok |-> None, node |-> None, err |-> None]
Running == [kind |-> "Running", tok |-> None, node |-> None, err |-> None]

ParserError(e, sp, t) == [e |-> e, sp |-> sp, tok |-> t]

----------------------------------------------------------------------------
(* Sibling parsers: uniform contract                                        *)
(*   parse(lookahead, [args], context) -> Result<(next token, node), error> *)

\* The node the id-th sub-parser call can build.
SubNodes(name, id) ==
    IF name = "DeclarationList"
    THEN {[n |-> name, id |-> id, decls |-> k] : k \in 0..MaxDecls}
    ELSE {[n |-> name, id |-> id, decls |-> 0]}

\* What a sub-parser can answer after reading the tokens `more` (la its
\* lookahead): the last token it looked at is handed back or consumed.
SubReturns(name, la, p, more, id) ==
    LET last == IF more = <<>> THEN la[1] ELSE more[Len(more)]
        toks == {None, Some(last)}
        nodes == {None} \cup {Some(n) : n \in SubNodes(name, id)}
    IN  {OkR(t, n) : t \in toks, n \in nodes}
        \cup {ErrR(ParserError("SubParserError", Span(p \o more), last))}

\* Every run of one sub-parser call from stream prefix p: it reads its first
\* token unless given a lookahead, then at most MaxSubPull more.
SubParserRuns(name, la, p, id) ==
    LET least == IF la = None THEN 1 ELSE 0
    IN  UNION { UNION { { [more |-> m, ret |-> r] :
                          r \in SubReturns(name, la, p, m, id) } :
                        m \in LexRuns(p, n) } :
                n \in least..(least + MaxSubPull) }

\* The record of one sub-parser call.
Call(name, la, hint, p, run) ==
    [parser |-> name, la |-> la, hint |-> hint, from |-> Len(p),
     more |-> run.more, ret |-> run.ret]

\* The record of one comparison of a token with the terminator expected.
Check(expect, found, p) ==
    [expect |-> expect, found |-> found, at |-> Len(p), ncalls |-> Len(calls)]

----------------------------------------------------------------------------
(* Context *)

\* context.set_current(None, kind): enter a scope.
SetCurrent(c, kind) == [c EXCEPT !.scopes = Append(@, kind)]
\* context.pop(): leave the current scope.
Pop(c) == [c EXCEPT !.scopes = SubSeq(@, 1, Len(@) - 1)]
\* context.add_type_decl(typ)
AddTypeDecl(c, typ) == [c EXCEPT !.type_decls = Append(@, typ)]

Contexts ==
    {[scopes |-> s, type_decls |-> <<>>] : s \in {<<>>, <<"Function">>}}

----------------------------------------------------------------------------
(* Initial state: a call of one parse function *)

Lookaheads(p) ==
    IF p = "Do" THEN {None}
    ELSE {None} \cup {Some(t) : t \in Alphabet(p)}

Firsts(p) == IF p = "Qualified" THEN {None, Some("f")} ELSE {None}

Attributes(p) == IF p = "Do" THEN {None, Some("attrs")} ELSE {None}

Init ==
    /\ parser \in Parsers
    /\ args \in {[tok |-> l, first |-> f, attributes |-> a] :
                   l \in Lookaheads(parser), f \in Firsts(parser),
                   a \in Attributes(parser)}
    /\ context \in Contexts
    /\ entry = context
    /\ pulled = <<>>
    /\ pc = "start"
    /\ tok = Unset
    /\ tk = None
    /\ names = <<>>
    /\ wait_id = FALSE
    /\ dimensions = <<>>
    /\ size = None
    /\ body = None
    /\ condition = None
    /\ language = ""
    /\ has_brace = FALSE
    /\ list = None
    /\ calls = <<>>
    /\ checks = <<>>
    /\ result = Running

\* return r
Return(r) == pc' = "done" /\ result' = r

----------------------------------------------------------------------------
(* QualifiedParser::parse *)

Identifier(val) == [name |-> "Identifier", val |-> val, sub |-> None]
Empty == [name |-> "Empty", val |-> "", sub |-> None]
Operator(op) == [name |-> "Operator", val |-> "", sub |-> Some(op)]
Destructor(d) == [name |-> "Destructor", val |-> "", sub |-> Some(d)]
Qualified(ns) == [names |-> ns]

\* QStart waiting for an identifier even when given a first identifier
QStart_AlwaysWaits ==
    /\ parser = "Qualified" /\ pc = "start"
    /\ \E u \in UnwrapOrNext(args.tok, pulled) :
         /\ tok' = u.tok
         /\ pulled' = u.pulled
    /\ names' = IF args.first # None THEN <<Identifier(args.first[1])>> ELSE <<>>
    /\ wait_id' = TRUE
    /\ pc' = "loop"
    /\ UNCHANGED <<parser, args, entry, context, tk, avars, dvars, evars,
                   calls, checks, result>>

\* name.rs 136-143
QStart ==
    /\ parser = "Qualified" /\ pc = "start"
    /\ \E u \in UnwrapOrNext(args.tok, pulled) :
         /\ tok' = u.tok
         /\ pulled' = u.pulled
    /\ names' = IF args.first # None THEN <<Identifier(args.first[1])>> ELSE <<>>
    /\ wait_id' = (args.first = None)
    /\ pc' = "loop"
    /\ UNCHANGED <<parser, args, entry, context, tk, avars, dvars, evars,
                   calls, checks, result>>

\* QNext keeping the current token instead of reading the next one
QNext_KeepsToken ==
    /\ tok' = tok
    /\ pulled' = pulled

\* name.rs 205: tok = self.lexer.next_useful() at the end of an iteration
QNext ==
    \E t \in NextUseful(pulled) :
        /\ tok' = t
        /\ pulled' = Append(pulled, t)

\* QColonColon pushing the Empty marker at every `::`
QColonColon_AlwaysEmpty ==
    /\ parser = "Qualified" /\ pc = "loop"
    /\ tok = Tok("ColonColon")
    /\ names' = Append(names, Empty)
    /\ wait_id' = TRUE
    /\ QNext
    /\ UNCHANGED <<parser, args, entry, context, pc, tk, avars, dvars, evars,
                   calls, checks, result>>

\* QColonColon without the Empty marker of a leading `::`
QColonColon_NoEmpty ==
    /\ parser = "Qualified" /\ pc = "loop"
    /\ tok = Tok("ColonColon")
    /\ names' = names
    /\ wait_id' = TRUE
    /\ QNext
    /\ UNCHANGED <<parser, args, entry, context, pc, tk, avars, dvars, evars,
                   calls, checks, result>>

\* name.rs 147-153, 205
QColonColon ==
    /\ parser = "Qualified" /\ pc = "loop"
    /\ tok = Tok("ColonColon")
    /\ names' = IF names = <<>> THEN <<Empty>> ELSE names
    /\ wait_id' = TRUE
    /\ QNext
    /\ UNCHANGED <<parser, args, entry, context, pc, tk, avars, dvars, evars,
                   calls, checks, result>>

\* QIdentifier leaving wait_id set after the segment
QIdentifier_KeepsWaiting ==
    /\ parser = "Qualified" /\ pc = "loop"
    /\ tok.t = "Identifier" /\ wait_id
    /\ names' = Append(names, Identifier(tok.val))
    /\ wait_id' = TRUE
    /\ QNext
    /\ UNCHANGED <<parser, args, entry, context, pc, tk, avars, dvars, evars,
                   calls, checks, result>>

\* QIdentifier putting the new segment in front
QIdentifier_Prepend ==
    /\ parser = "Qualified" /\ pc = "loop"
    /\ tok.t = "Identifier" /\ wait_id
    /\ names' = <<Identifier(tok.val)>> \o names
    /\ wait_id' = FALSE
    /\ QNext
    /\ UNCHANGED <<parser, args, entry, context, pc, tk, avars, dvars, evars,
                   calls, checks, result>>

\* name.rs 171-174, 205
QIdentifier ==
    /\ parser = "Qualified" /\ pc = "loop"
    /\ tok.t = "Identifier" /\ wait_id
    /\ names' = Append(names, Identifier(tok.val))
    /\ wait_id' = FALSE
    /\ QNext
    /\ UNCHANGED <<parser, args, entry, context, pc, tk, avars, dvars, evars,
                   calls, checks, result>>

\* name.rs 175-177
QIdentifierStop ==
    /\ parser = "Qualified" /\ pc = "loop"
    /\ tok.t = "Identifier" /\ ~wait_id
    /\ Return(OkR(Some(tok), Some(Qualified(names))))
    /\ UNCHANGED <<parser, args, entry, context, pulled, tok, tk, qvars, avars,
                   dvars, evars, calls, checks>>

\* name.rs 182, 191: the Name built from what the sub-parser returned
DelegatedName(sub, node) ==
    IF sub = "Operator" THEN Operator(node) ELSE Destructor(node)

\* name.rs 179-184 and 188-192: delegate to the Operator or Destructor parser
\* with the current token, append what it built and return.
QDelegate(sub) ==
    \E run \in SubParserRuns(sub, Some(tok), pulled, Len(calls) + 1) :
        /\ calls' = Append(calls, Call(sub, Some(tok), "", pulled, run))
        /\ pulled' = pulled \o run.more
        /\ IF run.ret.kind = "Err"
           THEN Return(run.ret) /\ UNCHANGED names
           ELSE IF run.ret.node = None
           THEN Return(Panic) /\ UNCHANGED names
           ELSE /\ names' = Append(names, DelegatedName(sub, run.ret.node[1]))
                /\ Return(OkR(run.ret.tok, Some(Qualified(names'))))

\* name.rs 178-185
QOperator ==
    /\ parser = "Qualified" /\ pc = "loop"
    /\ tok = Tok("Operator")
    /\ QDelegate("Operator")
    /\ UNCHANGED <<parser, args, entry, context, tok, tk, wait_id, avars, dvars,
                   evars, checks>>

\* name.rs 186-192
QTildeDtor ==
    /\ parser = "Qualified" /\ pc = "loop"
    /\ tok = Tok("Tilde") /\ wait_id
    /\ QDelegate("Destructor")
    /\ UNCHANGED <<parser, args, entry, context, tok, tk, wait_id, avars, dvars,
                   evars, checks>>

\* QTildeStop handing `~` to the destructor parser although no `::` precedes
QTildeStop_Delegates ==
    /\ parser = "Qualified" /\ pc = "loop"
    /\ tok = Tok("Tilde") /\ ~wait_id
    /\ QDelegate("Destructor")
    /\ UNCHANGED <<parser, args, entry, context, tok, tk, wait_id, avars, dvars,
                   evars, checks>>

\* name.rs 186-187, 193-195
QTildeStop ==
    /\ parser = "Qualified" /\ pc = "loop"
    /\ tok = Tok("Tilde") /\ ~wait_id
    /\ Return(OkR(Some(tok), Some(Qualified(names))))
    /\ UNCHANGED <<parser, args, entry, context, pulled, tok, tk, qvars, avars,
                   dvars, evars, calls, checks>>

\* QOther reporting the absence of a name as an error
QOther_AbsenceIsError ==
    /\ parser = "Qualified" /\ pc = "loop"
    /\ tok.t \notin {"ColonColon", "Identifier", "Operator", "Tilde"}
    /\ IF names = <<>>
       THEN Return(ErrR(ParserError("InvalidTokenInName", Span(pulled), tok)))
       ELSE Return(OkR(Some(tok), Some(Qualified(names))))
    /\ UNCHANGED <<parser, args, entry, context, pulled, tok, tk, qvars, avars,
                   dvars, evars, calls, checks>>

\* name.rs 197-203
QOther ==
    /\ parser = "Qualified" /\ pc = "loop"
    /\ tok.t \notin {"ColonColon", "Identifier", "Operator", "Tilde"}
    /\ IF names = <<>>
       THEN Return(OkR(Some(tok), None))
       ELSE Return(OkR(Some(tok), Some(Qualified(names))))
    /\ UNCHANGED <<parser, args, entry, context, pulled, tok, tk, qvars, avars,
                   dvars, evars, calls, checks>>

QualifiedParse ==
    \/ QStart \/ QColonColon \/ QIdentifier \/ QIdentifierStop
    \/ QOperator \/ QTildeDtor \/ QTildeStop \/ QOther

----------------------------------------------------------------------------
(* ArrayParser::parse *)

Dimension(sz, attrs) == [size |-> sz, attributes |-> attrs]
Array(dims) == [base |-> None, dimensions |-> dims]

\* array.rs 75-78: the error built when the size is not closed by `]`
InvalidTokenInArraySize(p) ==
    ParserError("InvalidTokenInArraySize", Span(p), tok)

\* array.rs 62-63
AStart ==
    /\ parser = "Array" /\ pc = "start"
    /\ \E u \in UnwrapOrNext(args.tok, pulled) :
         /\ tok' = u.tok
         /\ pulled' = u.pulled
    /\ dimensions' = <<>>
    /\ pc' = "loop"
    /\ UNCHANGED <<parser, args, entry, context, tk, size, qvars, dvars, evars,
                   calls, checks, result>>

\* ABreak building an Array even for zero dimensions
ABreak_AlwaysArray ==
    /\ parser = "Array" /\ pc = "loop"
    /\ tok # Tok("LeftBrack")
    /\ Return(OkR(Some(tok), Some(Array(dimensions))))
    /\ UNCHANGED <<parser, args, entry, context, pulled, tok, tk, qvars, avars,
                   dvars, evars, calls, checks>>

\* array.rs 66-68, 89-99
ABreak ==
    /\ parser = "Array" /\ pc = "loop"
    /\ tok # Tok("LeftBrack")
    /\ Return(IF dimensions = <<>>
              THEN OkR(Some(tok), None)
              ELSE OkR(Some(tok), Some(Array(dimensions))))
    /\ UNCHANGED <<parser, args, entry, context, pulled, tok, tk, qvars, avars,
                   dvars, evars, calls, checks>>

\* array.rs 70-71
ASize ==
    /\ parser = "Array" /\ pc = "loop"
    /\ tok = Tok("LeftBrack")
    /\ \E run \in SubParserRuns("Expression", None, pulled, Len(calls) + 1) :
         /\ calls' = Append(calls, Call("Expression", None, "RightBrack", pulled, run))
         /\ pulled' = pulled \o run.more
         /\ IF run.ret.kind = "Err"
            THEN Return(run.ret) /\ UNCHANGED <<tk, size>>
            ELSE /\ tk' = run.ret.tok
                 /\ size' = run.ret.node
                 /\ pc' = "close"
                 /\ UNCHANGED result
    /\ UNCHANGED <<parser, args, entry, context, tok, dimensions, qvars, dvars,
                   evars, checks>>

\* array.rs 73-79
AClose ==
    /\ parser = "Array" /\ pc = "close"
    /\ \E u \in UnwrapOrNext(tk, pulled) :
         /\ pulled' = u.pulled
         /\ tk' = Some(u.tok)
         /\ checks' = Append(checks, Check("RightBrack", u.tok, u.pulled))
         /\ IF u.tok # Tok("RightBrack")
            THEN Return(ErrR(InvalidTokenInArraySize(u.pulled)))
            ELSE pc' = "attributes" /\ UNCHANGED result
    /\ UNCHANGED <<parser, args, entry, context, tok, qvars, avars, dvars, evars,
                   calls>>

\* AAttributes putting the new dimension in front
AAttributes_Prepend ==
    /\ parser = "Array" /\ pc = "attributes"
    /\ \E run \in SubParserRuns("Attributes", None, pulled, Len(calls) + 1) :
         /\ calls' = Append(calls, Call("Attributes", None, "", pulled, run))
         /\ IF run.ret.kind = "Err"
            THEN /\ pulled' = pulled \o run.more
                 /\ Return(run.ret)
                 /\ UNCHANGED <<tok, tk, dimensions>>
            ELSE /\ \E u \in UnwrapOrNext(run.ret.tok, pulled \o run.more) :
                      /\ tok' = u.tok
                      /\ pulled' = u.pulled
                 /\ tk' = run.ret.tok
                 /\ dimensions' = <<Dimension(size, run.ret.node)>> \o dimensions
                 /\ pc' = "loop"
                 /\ UNCHANGED result
    /\ UNCHANGED <<parser, args, entry, context, size, qvars, dvars, evars, checks>>

\* array.rs 81-86
AAttributes ==
    /\ parser = "Array" /\ pc = "attributes"
    /\ \E run \in SubParserRuns("Attributes", None, pulled, Len(calls) + 1) :
         /\ calls' = Append(calls, Call("Attributes", None, "", pulled, run))
         /\ IF run.ret.kind = "Err"
            THEN /\ pulled' = pulled \o run.more
                 /\ Return(run.ret)
                 /\ UNCHANGED <<tok, tk, dimensions>>
            ELSE /\ \E u \in UnwrapOrNext(run.ret.tok, pulled \o run.more) :
                      /\ tok' = u.tok
                      /\ pulled' = u.pulled
                 /\ tk' = run.ret.tok
                 /\ dimensions' = Append(dimensions, Dimension(size, run.ret.node))
                 /\ pc' = "loop"
                 /\ UNCHANGED result
    /\ UNCHANGED <<parser, args, entry, context, size, qvars, dvars, evars, checks>>

ArrayParse == AStart \/ ABreak \/ ASize \/ AClose \/ AAttributes

----------------------------------------------------------------------------
(* DoStmtParser::parse *)

Do(attrs, b, c) == [attributes |-> attrs, body |-> b, condition |-> c]

\* InvalidTokenInDo carrying the token held before the checkpoint
InvalidTokenInDo_Stale(p, found) == ParserError("InvalidTokenInDo", Span(p), tok)

\* do.rs 50-53, 58-61, 69-72, 85-88: the error built at a failed checkpoint
InvalidTokenInDo(p, found) == ParserError("InvalidTokenInDo", Span(p), found)

\* DBody reporting a failed body as an InvalidTokenInDo of its own
DBody_OwnError ==
    /\ parser = "Do" /\ pc = "start"
    /\ \E run \in SubParserRuns("Statement", None, pulled, Len(calls) + 1) :
         /\ calls' = Append(calls, Call("Statement", None, "", pulled, run))
         /\ pulled' = pulled \o run.more
         /\ IF run.ret.kind = "Err"
            THEN /\ context' = SetCurrent(context, "DoBlock")
                 /\ Return(ErrR(InvalidTokenInDo(pulled', run.ret.err[1].tok)))
                 /\ UNCHANGED <<tk, body>>
            ELSE /\ context' = Pop(SetCurrent(context, "DoBlock"))
                 /\ tk' = run.ret.tok
                 /\ body' = run.ret.node
                 /\ pc' = "while"
                 /\ UNCHANGED result
    /\ UNCHANGED <<parser, args, entry, tok, condition, qvars, avars, evars, checks>>

\* do.rs 43-46: the body, inside a DoBlock scope
DBody ==
    /\ parser = "Do" /\ pc = "start"
    /\ \E run \in SubParserRuns("Statement", None, pulled, Len(calls) + 1) :
         /\ calls' = Append(calls, Call("Statement", None, "", pulled, run))
         /\ pulled' = pulled \o run.more
         /\ IF run.ret.kind = "Err"
            THEN /\ context' = SetCurrent(context, "DoBlock")
                 /\ Return(run.ret)
                 /\ UNCHANGED <<tk, body>>
            ELSE /\ context' = Pop(SetCurrent(context, "DoBlock"))
                 /\ tk' = run.ret.tok
                 /\ body' = run.ret.node
                 /\ pc' = "while"
                 /\ UNCHANGED result
    /\ UNCHANGED <<parser, args, entry, tok, condition, qvars, avars, evars, checks>>

\* do.rs 48-54
DWhile ==
    /\ parser = "Do" /\ pc = "while"
    /\ \E u \in UnwrapOrNext(tk, pulled) :
         /\ tok' = u.tok
         /\ pulled' = u.pulled
         /\ checks' = Append(checks, Check("While", u.tok, u.pulled))
         /\ IF u.tok # Tok("While")
            THEN Return(ErrR(InvalidTokenInDo(u.pulled, u.tok)))
            ELSE pc' = "lparen" /\ UNCHANGED result
    /\ UNCHANGED <<parser, args, entry, context, tk, qvars, avars, dvars, evars,
                   calls>>

\* do.rs 56-62
DLeftParen ==
    /\ parser = "Do" /\ pc = "lparen"
    /\ \E t \in NextUseful(pulled) :
         /\ tok' = t
         /\ pulled' = Append(pulled, t)
         /\ checks' = Append(checks, Check("LeftParen", t, pulled'))
         /\ IF t # Tok("LeftParen")
            THEN Return(ErrR(InvalidTokenInDo(pulled', t)))
            ELSE pc' = "condition" /\ UNCHANGED result
    /\ UNCHANGED <<parser, args, entry, context, tk, qvars, avars, dvars, evars,
                   calls>>

\* do.rs 64-65
DCondition ==
    /\ parser = "Do" /\ pc = "condition"
    /\ \E run \in SubParserRuns("Expression", None, pulled, Len(calls) + 1) :
         /\ calls' = Append(calls, Call("Expression", None, "RightParen", pulled, run))
         /\ pulled' = pulled \o run.more
         /\ IF run.ret.kind = "Err"
            THEN Return(run.ret) /\ UNCHANGED <<tk, condition>>
            ELSE /\ tk' = run.ret.tok
                 /\ condition' = run.ret.node
                 /\ pc' = "rparen"
                 /\ UNCHANGED result
    /\ UNCHANGED <<parser, args, entry, context, tok, body, qvars, avars, evars,
                   checks>>

\* DRightParen accepting whatever follows the condition
DRightParen_Unchecked ==
    /\ parser = "Do" /\ pc = "rparen"
    /\ \E u \in UnwrapOrNext(tk, pulled) :
         /\ tok' = u.tok
         /\ pulled' = u.pulled
         /\ checks' = Append(checks, Check("RightParen", u.tok, u.pulled))
         /\ pc' = "semi" /\ UNCHANGED result
    /\ UNCHANGED <<parser, args, entry, context, tk, qvars, avars, dvars, evars,
                   calls>>

\* do.rs 67-73
DRightParen ==
    /\ parser = "Do" /\ pc = "rparen"
    /\ \E u \in UnwrapOrNext(tk, pulled) :
         /\ tok' = u.tok
         /\ pulled' = u.pulled
         /\ checks' = Append(checks, Check("RightParen", u.tok, u.pulled))
         /\ IF u.tok # Tok("RightParen")
            THEN Return(ErrR(InvalidTokenInDo(u.pulled, u.tok)))
            ELSE pc' = "semi" /\ UNCHANGED result
    /\ UNCHANGED <<parser, args, entry, context, tk, qvars, avars, dvars, evars,
                   calls>>

\* do.rs 75-89
DSemiColon ==
    /\ parser = "Do" /\ pc = "semi"
    /\ \E t \in NextUseful(pulled) :
         /\ tok' = t
         /\ pulled' = Append(pulled, t)
         /\ checks' = Append(checks, Check("SemiColon", t, pulled'))
         /\ IF t = Tok("SemiColon")
            THEN IF body = None \/ condition = None
                 THEN Return(Panic)
                 ELSE Return(OkR(None, Some(Do(args.attributes, body[1], condition[1]))))
            ELSE Return(ErrR(InvalidTokenInDo(pulled', t)))
    /\ UNCHANGED <<parser, args, entry, context, tk, qvars, avars, dvars, evars,
                   calls>>

DoStmtParse ==
    DBody \/ DWhile \/ DLeftParen \/ DCondition \/ DRightParen \/ DSemiColon

----------------------------------------------------------------------------
(* ExternParser::parse *)

Extern(lang, decls, multiple) ==
    [decl |-> "Extern", language |-> lang, decls |-> decls, multiple |-> multiple]
DeclarationType(typ) ==
    [decl |-> "Type", language |-> "", decls |-> typ, multiple |-> FALSE]

\* extern.rs 70-73
InvalidTokenInExtern(p, found) ==
    ParserError("InvalidTokenInExtern", Span(p), found)

\* EStart dropping the token that is not `extern`
EStart_DropsToken ==
    /\ parser = "Extern" /\ pc = "start"
    /\ \E u \in UnwrapOrNext(args.tok, pulled) :
         /\ tok' = u.tok
         /\ pulled' = u.pulled
         /\ IF u.tok # Tok("Extern")
            THEN Return(OkR(None, None))
            ELSE pc' = "extern" /\ UNCHANGED result
    /\ UNCHANGED <<parser, args, entry, context, tk, qvars, avars, dvars, evars,
                   calls, checks>>

\* extern.rs 44-47
EStart ==
    /\ parser = "Extern" /\ pc = "start"
    /\ \E u \in UnwrapOrNext(args.tok, pulled) :
         /\ tok' = u.tok
         /\ pulled' = u.pulled
         /\ IF u.tok # Tok("Extern")
            THEN Return(OkR(Some(u.tok), None))
            ELSE pc' = "extern" /\ UNCHANGED result
    /\ UNCHANGED <<parser, args, entry, context, tk, qvars, avars, dvars, evars,
                   calls, checks>>

\* extern.rs 49, 51, 85
EAfterExtern ==
    /\ parser = "Extern" /\ pc = "extern"
    /\ \E t \in NextUseful(pulled) :
         /\ tok' = t
         /\ pulled' = Append(pulled, t)
         /\ IF t.t = "LiteralString"
            THEN language' = t.val /\ pc' = "language"
            ELSE UNCHANGED language /\ pc' = "type"
    /\ UNCHANGED <<parser, args, entry, context, tk, has_brace, list, qvars, avars,
                   dvars, calls, checks, result>>

\* extern.rs 52-53
EBrace ==
    /\ parser = "Extern" /\ pc = "language"
    /\ \E t \in NextUseful(pulled) :
         /\ tok' = t
         /\ pulled' = Append(pulled, t)
         /\ has_brace' = (t = Tok("LeftBrace"))
    /\ pc' = "list"
    /\ UNCHANGED <<parser, args, entry, context, tk, language, list, qvars, avars,
                   dvars, calls, checks, result>>

\* EList going on after a failed declaration list as if it were empty
EList_SwallowsError ==
    /\ parser = "Extern" /\ pc = "list"
    /\ \E run \in SubParserRuns("DeclarationList", None, pulled, Len(calls) + 1) :
         /\ calls' = Append(calls, Call("DeclarationList", None, "", pulled, run))
         /\ pulled' = pulled \o run.more
         /\ tk' = run.ret.tok
         /\ list' = run.ret.node
         /\ pc' = IF has_brace THEN "close" ELSE "single"
         /\ UNCHANGED result
    /\ UNCHANGED <<parser, args, entry, context, tok, language, has_brace, qvars,
                   avars, dvars, checks>>

\* extern.rs 54-56
EList ==
    /\ parser = "Extern" /\ pc = "list"
    /\ \E run \in SubParserRuns("DeclarationList", None, pulled, Len(calls) + 1) :
         /\ calls' = Append(calls, Call("DeclarationList", None, "", pulled, run))
         /\ pulled' = pulled \o run.more
         /\ IF run.ret.kind = "Err"
            THEN Return(run.ret) /\ UNCHANGED <<tk, list>>
            ELSE /\ tk' = run.ret.tok
                 /\ list' = run.ret.node
                 /\ pc' = IF has_brace THEN "close" ELSE "single"
                 /\ UNCHANGED result
    /\ UNCHANGED <<parser, args, entry, context, tok, language, has_brace, qvars,
                   avars, dvars, checks>>

\* EClose taking whatever follows the declaration list as the closing brace
EClose_Unchecked ==
    /\ parser = "Extern" /\ pc = "close"
    /\ \E u \in UnwrapOrNext(tk, pulled) :
         /\ tok' = u.tok
         /\ pulled' = u.pulled
         /\ checks' = Append(checks, Check("RightBrace", u.tok, u.pulled))
         /\ IF list = None
            THEN Return(Panic)
            ELSE Return(OkR(None, Some(Extern(language, list[1], TRUE))))
    /\ UNCHANGED <<parser, args, entry, context, tk, qvars, avars, dvars, evars,
                   calls>>

\* extern.rs 58-74
EClose ==
    /\ parser = "Extern" /\ pc = "close"
    /\ \E u \in UnwrapOrNext(tk, pulled) :
         /\ tok' = u.tok
         /\ pulled' = u.pulled
         /\ checks' = Append(checks, Check("RightBrace", u.tok, u.pulled))
         /\ IF u.tok = Tok("RightBrace")
            THEN IF list = None
                 THEN Return(Panic)
                 ELSE Return(OkR(None, Some(Extern(language, list[1], TRUE))))
            ELSE Return(ErrR(InvalidTokenInExtern(u.pulled, u.tok)))
    /\ UNCHANGED <<parser, args, entry, context, tk, qvars, avars, dvars, evars,
                   calls>>

\* extern.rs 75-84
ESingle ==
    /\ parser = "Extern" /\ pc = "single"
    /\ IF list = None
       THEN Return(Panic)
       ELSE Return(OkR(tk, Some(Extern(language, list[1], FALSE))))
    /\ UNCHANGED <<parser, args, entry, context, pulled, tok, tk, qvars, avars,
                   dvars, evars, calls, checks>>

\* EType without the registration of the declarator in the Context
EType_NoRegister ==
    /\ parser = "Extern" /\ pc = "type"
    /\ \E run \in SubParserRuns("TypeDeclarator", Some(tok), pulled, Len(calls) + 1) :
         /\ calls' = Append(calls, Call("TypeDeclarator", Some(tok), "EXTERN", pulled, run))
         /\ pulled' = pulled \o run.more
         /\ IF run.ret.kind = "Err"
            THEN Return(run.ret)
            ELSE IF run.ret.node = None
            THEN Return(Panic)
            ELSE Return(OkR(run.ret.tok, Some(DeclarationType(run.ret.node[1]))))
    /\ UNCHANGED <<parser, args, entry, context, tok, tk, qvars, avars, dvars,
                   evars, checks>>

\* extern.rs 85-93
EType ==
    /\ parser = "Extern" /\ pc = "type"
    /\ \E run \in SubParserRuns("TypeDeclarator", Some(tok), pulled, Len(calls) + 1) :
         /\ calls' = Append(calls, Call("TypeDeclarator", Some(tok), "EXTERN", pulled, run))
         /\ pulled' = pulled \o run.more
         /\ IF run.ret.kind = "Err"
            THEN Return(run.ret) /\ UNCHANGED context
            ELSE IF run.ret.node = None
            THEN Return(Panic) /\ UNCHANGED context
            ELSE /\ context' = AddTypeDecl(context, run.ret.node[1])
                 /\ Return(OkR(run.ret.tok, Some(DeclarationType(run.ret.node[1]))))
    /\ UNCHANGED <<parser, args, entry, tok, tk, qvars, avars, dvars, evars, checks>>

ExternParse ==
    EStart \/ EAfterExtern \/ EBrace \/ EList \/ EClose \/ ESingle \/ EType

----------------------------------------------------------------------------

Next == QualifiedParse \/ ArrayParse \/ DoStmtParse \/ ExternParse

Spec == Init /\ [][Next]_vars

\* The parse functions that loop over the token stream, called alone.  A
\* called function runs on until it returns, and a sub-parser call returns:
\* a step that can be taken is taken.
LoopInit == Init /\ parser \in {"Qualified", "Array"}
LoopNext == QualifiedParse \/ ArrayParse
LoopSpec == LoopInit /\ [][LoopNext]_vars /\ WF_vars(LoopNext)

----------------------------------------------------------------------------
(* Properties *)

Last(s) == s[Len(s)]
Front(s) == SubSeq(s, 1, Len(s) - 1)

Done(p) == parser = p /\ pc = "done"

\* The first token the parse function examined.
FirstToken == IF args.tok # None THEN args.tok[1] ELSE pulled[1]
\* The tokens pulled when only that first token has been examined.
FirstPull == IF args.tok # None THEN 0 ELSE 1

\* s is a prefix of id :: id :: ... : identifiers at odd places, `::` at even.
ChainPrefix(s) ==
    \A i \in 1..Len(s) :
        IF i % 2 = 1 THEN s[i].t = "Identifier" ELSE s[i] = Tok("ColonColon")

\* The names of the chain s = id1 :: ... :: idn.
ChainNames(s) == [i \in 1..((Len(s) + 1) \div 2) |-> Identifier(s[2 * i - 1].val)]

\* C1: on a stream id1 :: ... :: idn followed by end-of-stream, with no
\* lookahead and no first identifier, QualifiedParser::parse reads the whole
\* stream and returns Ok with the end-of-stream token and the Qualified whose
\* names are Identifier(id1), ..., Identifier(idn) in input order.
C1_QualifiedReconstructsChain ==
    (parser = "Qualified" /\ args.tok = None /\ args.first = None) =>
        /\ ChainPrefix(pulled) => pc # "done"
        /\ (/\ pc = "done"
            /\ Len(pulled) >= 2
            /\ Last(pulled) = Eof
            /\ Len(pulled) % 2 = 0
            /\ ChainPrefix(Front(pulled)))
           => result = OkR(Some(Eof), Some(Qualified(ChainNames(Front(pulled)))))

C1_Witness ==
    /\ Done("Qualified") /\ args.tok = None /\ args.first = None
    /\ pulled = <<Ident("a"), Tok("ColonColon"), Ident("b"), Tok("ColonColon"),
                  Ident("a"), Eof>>
    /\ result.kind = "Ok"
    /\ result.node = Some(Qualified(<<Identifier("a"), Identifier("b"), Identifier("a")>>))

\* C2: when DoStmtParser::parse has returned, with Ok or with any Err, the
\* scope stack of the Context is what it was when parse was called.
C2_ScopeStackRestored ==
    Done("Do") => context.scopes = entry.scopes

\* C3: when QualifiedParser::parse returns Ok with node None, the token it
\* returns is the first token it examined, no later token has been pulled
\* from the lexer and no sub-parser has run.
C3_NoneLeavesFirstToken ==
    (Done("Qualified") /\ result.kind = "Ok" /\ result.node = None) =>
        /\ result.tok = Some(FirstToken)
        /\ Len(pulled) = FirstPull
        /\ calls = <<>>

C3_Witness ==
    /\ Done("Qualified") /\ result.kind = "Ok" /\ result.node = None
    /\ args.tok = None
    /\ pulled = <<Tok("SemiColon")>>

\* C4: when the token found after the size expression of a dimension is not
\* `]`, ArrayParser::parse returns Err(InvalidTokenInArraySize) whose tok is
\* that token and whose span is the lexer's position at that token.
C4_ErrorCarriesOffendingToken ==
    (parser = "Array" /\ checks # <<>> /\ Last(checks).found # Tok("RightBrack")) =>
        /\ pc = "done"
        /\ result.kind = "Err"
        /\ result.err[1].e = "InvalidTokenInArraySize"
        /\ result.err[1].sp = Last(checks).at
        /\ result.err[1].tok = Last(checks).found

\* The token ArrayParser::parse holds after the last dimension group: the one
\* the attribute parser handed back, else the next one pulled.
TokenAfterLastGroup ==
    IF Last(calls).ret.tok # None
    THEN Last(calls).ret.tok[1]
    ELSE pulled[Last(calls).from + Len(Last(calls).more) + 1]

\* C5: ArrayParser::parse returns Ok with node None exactly when the first
\* token is not `[`, and then returns that token with nothing else pulled;
\* an Array it returns has at least one dimension and base None; the token
\* returned with Ok is the first token after the last dimension group, and
\* is not `[`.
C5_NoneIffNoDimension ==
    Done("Array") =>
        /\ (result.kind = "Ok" /\ result.node = None) <=> FirstToken # Tok("LeftBrack")
        /\ FirstToken # Tok("LeftBrack") =>
              /\ result.tok = Some(FirstToken)
              /\ Len(pulled) = FirstPull
              /\ calls = <<>>
        /\ (result.kind = "Ok" /\ result.node # None) =>
              /\ result.node[1].dimensions # <<>>
              /\ result.node[1].base = None
              /\ result.tok = Some(TokenAfterLastGroup)
        /\ result.kind = "Ok" =>
              /\ result.tok # None
              /\ result.tok[1] # Tok("LeftBrack")

C5_Witness ==
    /\ Done("Array") /\ result.kind = "Ok" /\ result.node # None
    /\ Len(result.node[1].dimensions) = 2
    /\ Last(calls).ret.tok = None
    /\ result.tok = Some(Tok("SemiColon"))

\* C6: an Array returned by ArrayParser::parse for k >= 1 groups
\* `[ size? ] attributes?` has exactly k dimensions, the i-th holding the
\* size the expression parser returned for the i-th group (None for `[]`)
\* and the attributes the attribute parser returned for that group.
C6_DimensionsInInputOrder ==
    (Done("Array") /\ result.kind = "Ok" /\ result.node # None) =>
        LET dims == result.node[1].dimensions
        IN  /\ Len(dims) >= 1
            /\ Len(checks) = Len(dims)
            /\ Len(calls) = 2 * Len(dims)
            /\ \A i \in 1..Len(dims) :
                 /\ checks[i].found = Tok("RightBrack")
                 /\ checks[i].ncalls = 2 * i - 1
                 /\ calls[2 * i - 1].parser = "Expression"
                 /\ calls[2 * i].parser = "Attributes"
                 /\ dims[i].size = calls[2 * i - 1].ret.node
                 /\ dims[i].attributes = calls[2 * i].ret.node

C6_Witness ==
    /\ Done("Array") /\ result.kind = "Ok" /\ result.node # None
    /\ Len(result.node[1].dimensions) = 2
    /\ result.node[1].dimensions[1].size # None
    /\ result.node[1].dimensions[2].size = None
    /\ pulled[1] = Tok("LeftBrack") /\ pulled[2] = Ident("a")

\* C7: DoStmtParser::parse returns Ok only after the body statement, `while`,
\* `(`, the condition expression, `)` and `;` in this order; the result is
\* (None, Some(Do)) holding the body and the condition the sub-parsers
\* returned and the attributes passed in, and `;` is the last token pulled.
C7_OkAfterWholeStatement ==
    (Done("Do") /\ result.kind = "Ok") =>
        /\ [i \in 1..Len(calls) |-> calls[i].parser] = <<"Statement", "Expression">>
        /\ [i \in 1..Len(checks) |-> checks[i].expect]
             = <<"While", "LeftParen", "RightParen", "SemiColon">>
        /\ [i \in 1..Len(checks) |-> checks[i].ncalls] = <<1, 1, 2, 2>>
        /\ \A i \in 1..Len(checks) : checks[i].found = Tok(checks[i].expect)
        /\ \A i \in 1..(Len(checks) - 1) : checks[i].at <= checks[i + 1].at
        /\ calls[1].ret.node # None /\ calls[2].ret.node # None
        /\ result.tok = None
        /\ result.node =
             Some(Do(args.attributes, calls[1].ret.node[1], calls[2].ret.node[1]))
        /\ Last(pulled) = Tok("SemiColon")
        /\ Last(checks).at = Len(pulled)

C7_Witness ==
    /\ Done("Do") /\ result.kind = "Ok"
    /\ args.attributes # None
    /\ result.node[1].attributes = args.attributes
    /\ calls[1].ret.tok = None /\ calls[2].ret.tok # None

\* C8: at each of the four checkpoints of DoStmtParser::parse (`while`, `(`,
\* `)`, `;`), a token that is not the expected one makes parse return
\* Err(InvalidTokenInDo) carrying exactly that token, with no Do node and no
\* further token pulled from the lexer.
C8_CheckpointMismatchFails ==
    (parser = "Do" /\ checks # <<>> /\ Last(checks).found # Tok(Last(checks).expect)) =>
        /\ pc = "done"
        /\ result.kind = "Err"
        /\ result.node = None
        /\ result.err[1].e = "InvalidTokenInDo"
        /\ result.err[1].tok = Last(checks).found
        /\ Len(pulled) = Last(checks).at

C8_Witness ==
    /\ Done("Do") /\ result.kind = "Err"
    /\ Len(checks) = 3
    /\ Last(checks).expect = "RightParen"
    /\ Last(checks).found = Tok("SemiColon")
    /\ result.err[1].tok = Tok("SemiColon")

\* C9 as stated: every Err returned by DoStmtParser::parse is an
\* InvalidTokenInDo carrying the mismatching token and its span.
C9_EveryErrIsInvalidTokenInDo ==
    (Done("Do") /\ result.kind = "Err") =>
        /\ result.err[1].e = "InvalidTokenInDo"
        /\ checks # <<>>
        /\ result.err[1].tok = Last(checks).found
        /\ result.err[1].sp = Last(checks).at

\* C9 amended: every Err returned by DoStmtParser::parse is either the error
\* the body statement parser or the condition expression parser returned,
\* unchanged, or an InvalidTokenInDo carrying the mismatching token found at
\* a checkpoint and the lexer's span there.
C9_ErrIsPropagatedOrInvalidTokenInDo ==
    (Done("Do") /\ result.kind = "Err") =>
        \/ /\ calls # <<>>
           /\ Last(calls).parser \in {"Statement", "Expression"}
           /\ Last(calls).ret.kind = "Err"
           /\ result = Last(calls).ret
           /\ \A i \in 1..Len(checks) : checks[i].ncalls < Len(calls)
        \/ /\ checks # <<>>
           /\ Last(checks).found # Tok(Last(checks).expect)
           /\ result.err = Some(ParserError("InvalidTokenInDo", Last(checks).at,
                                            Last(checks).found))
           /\ Last(checks).at = Span(pulled)

C9_Witness ==
    /\ Done("Do") /\ result.kind = "Err"
    /\ Len(calls) = 2
    /\ result = calls[2].ret
    /\ result.err[1].e = "SubParserError"

\* C10: when the first token ExternParser::parse sees is not `extern`, parse
\* returns Ok((Some(that token), None)) at once: no other token is pulled, no
\* sub-parser runs and the Context is unchanged.
C10_NotExternIsNoMatch ==
    (parser = "Extern" /\ pc # "start" /\ FirstToken # Tok("Extern")) =>
        /\ pc = "done"
        /\ result = OkR(Some(FirstToken), None)
        /\ Len(pulled) = FirstPull
        /\ calls = <<>>
        /\ context = entry

C10_Witness ==
    /\ Done("Extern") /\ args.tok = None
    /\ pulled = <<Ident("a")>>
    /\ result = OkR(Some(Ident("a")), None)

\* The token that follows what sub-parser call c read: the one it handed
\* back, else the next one pulled.
TokenAfterCall(c) ==
    IF c.ret.tok # None THEN c.ret.tok[1] ELSE pulled[c.from + Len(c.more) + 1]

\* The stream begins `extern`, string literal: ExternParser::parse has read
\* the token that follows the literal.
ExternLanguageHeader ==
    /\ parser = "Extern"
    /\ Len(pulled) >= FirstPull + 2
    /\ FirstToken = Tok("Extern")
    /\ pulled[FirstPull + 1].t = "LiteralString"

\* The token read after the language string literal.
TokenAfterLanguage == pulled[FirstPull + 2]

\* C11: for `extern`, a string literal and `{`, once the declaration-list
\* parser has returned a list, ExternParser::parse returns
\* Ok((None, Some(Extern{language, decls, multiple: true}))) exactly when the
\* token after the list is `}`, language being the literal's value and decls
\* the list returned; for any other token it returns
\* Err(InvalidTokenInExtern) carrying that token.
C11_BlockClosedByRightBrace ==
    (/\ pc = "done"
     /\ ExternLanguageHeader
     /\ TokenAfterLanguage = Tok("LeftBrace")
     /\ calls # <<>>
     /\ calls[1].ret.kind = "Ok"
     /\ calls[1].ret.node # None) =>
        LET after == TokenAfterCall(calls[1])
        IN  /\ result.kind = "Ok" <=> after = Tok("RightBrace")
            /\ after = Tok("RightBrace") =>
                 result = OkR(None, Some(Extern(pulled[FirstPull + 1].val,
                                                calls[1].ret.node[1], TRUE)))
            /\ after # Tok("RightBrace") =>
                 /\ result.kind = "Err"
                 /\ result.err[1].e = "InvalidTokenInExtern"
                 /\ result.err[1].tok = after

C11_Witness ==
    /\ Done("Extern") /\ ExternLanguageHeader
    /\ TokenAfterLanguage = Tok("LeftBrace")
    /\ result.kind = "Ok"
    /\ result.node[1].multiple
    /\ result.node[1].language = "C"
    /\ result.node[1].decls.decls = 1
    /\ calls[1].ret.tok = None
    /\ Last(pulled) = Tok("RightBrace")

\* C12: every Extern node ExternParser::parse returns with multiple = false
\* (the unbraced form) holds exactly one declaration.
C12_SingleHoldsOneDeclaration ==
    (/\ Done("Extern")
     /\ result.kind = "Ok"
     /\ result.node # None
     /\ result.node[1].decl = "Extern"
     /\ ~result.node[1].multiple) =>
        result.node[1].decls.decls = 1

\* C13: when the token after `extern` is not a string literal,
\* ExternParser::parse calls the type-declarator parser, and only it, with
\* that token as lookahead and the EXTERN specifier hint; the declarator it
\* returns is registered in the Context by one add_type_decl and returned as
\* Declaration::Type with the token the type-declarator parser returned.
C13_PlainExternIsTypeDeclaration ==
    (/\ Done("Extern")
     /\ FirstToken = Tok("Extern")
     /\ pulled[FirstPull + 1].t # "LiteralString") =>
        /\ Len(calls) = 1
        /\ calls[1].parser = "TypeDeclarator"
        /\ calls[1].la = Some(pulled[FirstPull + 1])
        /\ calls[1].hint = "EXTERN"
        /\ calls[1].from = FirstPull + 1
        /\ Len(pulled) = calls[1].from + Len(calls[1].more)
        /\ IF calls[1].ret.kind = "Ok" /\ calls[1].ret.node # None
           THEN /\ result = OkR(calls[1].ret.tok,
                                Some(DeclarationType(calls[1].ret.node[1])))
                /\ result.node[1].decl = "Type"
                /\ context = AddTypeDecl(entry, calls[1].ret.node[1])
                /\ Len(context.type_decls) = Len(entry.type_decls) + 1
           ELSE /\ result.kind # "Ok"
                /\ context = entry

C13_Witness ==
    /\ Done("Extern") /\ FirstToken = Tok("Extern")
    /\ pulled[FirstPull + 1] = Ident("a")
    /\ result.kind = "Ok"
    /\ result.node[1].decl = "Type"
    /\ result.tok = Some(Tok("SemiColon"))
    /\ context.type_decls = <<result.node[1].decls>>

\* C14: in each of the four parse functions, when a delegated sub-parser
\* returns an error, parse returns that same error unchanged and no node,
\* pulls no further token from the lexer and calls no further sub-parser.
C14_SubParserErrorPropagates ==
    \A i \in 1..Len(calls) :
        calls[i].ret.kind = "Err" =>
            /\ i = Len(calls)
            /\ pc = "done"
            /\ result = calls[i].ret
            /\ result.kind = "Err"
            /\ result.node = None
            /\ Len(pulled) = calls[i].from + Len(calls[i].more)

C14_Witness ==
    /\ Done("Array")
    /\ Len(calls) = 4
    /\ calls[4].parser = "Attributes"
    /\ calls[4].ret.kind = "Err"
    /\ result = calls[4].ret

\* C15: in QualifiedParser::parse, when wait_id is false and the current
\* token is an identifier or `~`, the step taken ends the parse with
\* Ok((Some(that token), Some(Qualified{names collected so far}))): the token
\* is not added to the name, nothing is pulled and no sub-parser is called.
C15_StopsAtNextConstruct ==
    [][(/\ parser = "Qualified" /\ pc = "loop"
        /\ ~wait_id
        /\ tok.t \in {"Identifier", "Tilde"}) =>
           /\ pc' = "done"
           /\ result' = OkR(Some(tok), Some(Qualified(names)))
           /\ names' = names
           /\ pulled' = pulled
           /\ calls' = calls]_vars

C15_Witness ==
    /\ Done("Qualified")
    /\ ~wait_id
    /\ tok = Tok("Tilde")
    /\ calls = <<>>
    /\ pulled # <<>>
    /\ Last(pulled) = tok
    /\ result = OkR(Some(tok), Some(Qualified(<<Identifier("a"), Identifier("b")>>)))

\* C16: every Qualified returned by QualifiedParser::parse has at least one
\* name; Name::Empty occurs only first, and only for a leading `::` with no
\* first identifier; Name::Operator and Name::Destructor occur only last.
C16_QualifiedShape ==
    (Done("Qualified") /\ result.kind = "Ok" /\ result.node # None) =>
        LET ns == result.node[1].names
        IN  /\ Len(ns) >= 1
            /\ \A i \in 1..Len(ns) :
                 /\ ns[i].name = "Empty" =>
                      /\ i = 1
                      /\ args.first = None
                      /\ FirstToken = Tok("ColonColon")
                 /\ ns[i].name \in {"Operator", "Destructor"} => i = Len(ns)

C16_Witness ==
    /\ Done("Qualified") /\ result.kind = "Ok" /\ result.node # None
    /\ Len(result.node[1].names) = 3
    /\ result.node[1].names[1] = Empty
    /\ result.node[1].names[2] = Identifier("a")
    /\ result.node[1].names[3].name = "Destructor"

\* The tokens QualifiedParse has seen: the lookahead and those pulled.
TokensSeen ==
    (IF args.tok # None THEN {args.tok[1]} ELSE {}) \cup {pulled[i] : i \in 1..Len(pulled)}

\* C17: QualifiedParser::parse returns Err only when the Operator or the
\* Destructor sub-parser returned Err, and then that same error; on a token
\* stream with no operator token and no `~` it returns Ok.
C17_ErrOnlyFromOperatorOrDestructor ==
    Done("Qualified") =>
        /\ result.kind = "Err" =>
             /\ calls # <<>>
             /\ Last(calls).parser \in {"Operator", "Destructor"}
             /\ Last(calls).ret.kind = "Err"
             /\ result = Last(calls).ret
        /\ (TokensSeen \cap {Tok("Operator"), Tok("Tilde")} = {}) => result.kind = "Ok"

C17_Witness ==
    /\ Done("Qualified") /\ result.kind = "Err"
    /\ calls[1].parser = "Destructor"
    /\ result = calls[1].ret
    /\ names = <<Identifier("a")>>

\* QualifiedParser::parse called with a first identifier: the name starts as
\* Identifier(first) with wait_id false; an Ok result holds a name beginning
\* with it; a first token that is an identifier or `~` is returned at once
\* with that one-segment name; the name is longer only when the first token
\* is one of `extenders`.
WithFirstIdentifier(extenders) ==
    (parser = "Qualified" /\ args.first # None) =>
        /\ (pc = "loop" /\ Len(pulled) = FirstPull) =>
              /\ ~wait_id
              /\ names = <<Identifier(args.first[1])>>
        /\ (pc = "done" /\ result.kind = "Ok") =>
              /\ result.node # None
              /\ result.node[1].names[1] = Identifier(args.first[1])
              /\ Len(result.node[1].names) > 1 => FirstToken \in extenders
        /\ (pc = "done" /\ FirstToken.t \in {"Identifier", "Tilde"}) =>
              /\ result = OkR(Some(FirstToken),
                              Some(Qualified(<<Identifier(args.first[1])>>)))
              /\ Len(pulled) = FirstPull
              /\ calls = <<>>

\* C18 as stated: with a pre-known first identifier f the result node is
\* never None, names[0] is Identifier(f), wait_id starts false, a following
\* identifier or `~` is returned unconsumed without extending the name, and
\* only a `::` can extend it.
C18_OnlyColonColonExtends == WithFirstIdentifier({Tok("ColonColon")})

\* C18 amended: as stated, except that the name is extended by a `::` or by
\* an operator token (which appends a terminal Operator name).
C18_ColonColonOrOperatorExtends ==
    WithFirstIdentifier({Tok("ColonColon"), Tok("Operator")})

C18_Witness ==
    /\ Done("Qualified") /\ args.first = Some("f")
    /\ FirstToken = Tok("Operator")
    /\ result.kind = "Ok"
    /\ Len(result.node[1].names) = 2
    /\ result.node[1].names[1] = Identifier("f")
    /\ result.node[1].names[2].name = "Operator"

\* C19: in the unbraced form the token ExternParser::parse reads after the
\* language string literal, when it is not `{`, is the lookahead handed to
\* the declaration-list parser, which so sees every token after the literal.
C19_TokenAfterLanguageHandedOver ==
    (/\ ExternLanguageHeader
     /\ TokenAfterLanguage \notin {Tok("LeftBrace"), Eof}
     /\ calls # <<>>) =>
        /\ calls[1].parser = "DeclarationList"
        /\ calls[1].la = Some(TokenAfterLanguage)

\* The tokens the loop of QualifiedParser::parse has matched itself: the
\* lookahead and those pulled before any sub-parser was called.
LoopTokens ==
    (IF args.tok # None THEN <<args.tok[1]>> ELSE <<>>)
      \o SubSeq(pulled, 1, IF calls = <<>> THEN Len(pulled) ELSE calls[1].from)

\* The `::` tokens the loop has consumed.
ColonColons ==
    Cardinality({i \in 1..Len(LoopTokens) : LoopTokens[i] = Tok("ColonColon")})

\* The names of ns that are not Name::Operator.
NonOperatorNames(ns) ==
    Cardinality({i \in 1..Len(ns) : ns[i].name # "Operator"})

\* C20 as stated: in every successful QualifiedParser::parse the number of
\* `::` tokens consumed is len(names) - 1, a leading Empty counted as a name.
C20_ColonColonsAreSeparators ==
    (Done("Qualified") /\ result.kind = "Ok" /\ result.node # None) =>
        ColonColons = Len(result.node[1].names) - 1

\* C20 amended: in every successful QualifiedParser::parse each Empty,
\* Identifier or Destructor name after the first is preceded by a consumed
\* `::`: the number of `::` consumed is at least the number of such names
\* minus one.  It can be more (a trailing or doubled `::` is consumed and
\* dropped), and an Operator name needs no `::`.
C20_ColonColonsCoverNames ==
    (Done("Qualified") /\ result.kind = "Ok" /\ result.node # None) =>
        ColonColons + 1 >= NonOperatorNames(result.node[1].names)

C20_Witness ==
    /\ Done("Qualified") /\ result.kind = "Ok"
    /\ pulled = <<Ident("a"), Tok("ColonColon"), Tok("ColonColon"), Ident("b"),
                  Tok("SemiColon")>>
    /\ result.node = Some(Qualified(<<Identifier("a"), Identifier("b")>>))
    /\ ColonColons = 2

\* C21: whatever the token stream and whatever the sub-parsers answer within
\* their contract (Ok with a node, Ok with node None, Err), a parse function
\* that has returned has returned Ok or Err: it never aborts on unwrapping
\* an absent body, condition, declaration list, type declarator, operator
\* or destructor.
C21_NeverAbortsOnAbsentNode ==
    pc = "done" => result.kind \in {"Ok", "Err"}

\* C22: the loops of QualifiedParser::parse and ArrayParser::parse
\* terminate on every stream that ends with end-of-stream: an iteration
\* that does not return pulls at least one new token from the lexer (and no
\* step gives a token back), an end-of-stream token at the head of the loop
\* makes the function return, and every call eventually returns.
C22_LoopsTerminate ==
    /\ [][/\ Len(pulled') >= Len(pulled)
          /\ (pc = "loop" /\ pc' # "done") => Len(pulled') > Len(pulled)
          /\ (pc = "loop" /\ tok = Eof) => pc' = "done"]_vars
    /\ <>(pc = "done")

C22_Witness ==
    /\ Done("Array") /\ args.tok = None
    /\ pulled = <<Tok("LeftBrack"), Tok("RightBrack"), Tok("LeftBrack"),
                  Tok("RightBrack"), Eof>>
    /\ Len(dimensions) = 2
    /\ tok = Eof
    /\ result.kind = "Ok" /\ result.tok = Some(Eof)

====
